---- MODULE Spec2Model ----
(***************************************************************************)
(* A model of the txoutset UTXO-set dump parser: the VarInt and            *)
(* CompactSize codecs, the amount compressor, the script decompressor,     *)
(* the header parser (Dump::from_reader) and the record stream             *)
(* (Dump::next).                                                           *)
(*                                                                         *)
(* Unsigned 64-bit values do not fit the model checker's machine           *)
(* integers, so every number of the program is modelled as a natural       *)
(* number in little-endian base-256 limbs (its to_le_bytes() without the   *)
(* high zero bytes; zero is the empty sequence).  A value fits u64 when it *)
(* has at most 8 limbs, u32 when it has at most 4.  Bytes of the stream    *)
(* are integers 0..255.                                                    *)
(***************************************************************************)
EXTENDS Integers, Sequences, FiniteSets, TLC

VARIABLES
    \* ---- Dump<R> (src/src/lib.rs:52-66) and its reader, a Cursor over bytes
    data,              \* the bytes of the underlying reader
    pos,               \* the reader's position
    pc,                \* "new" | "iter" (a Dump exists) | "failed" (Err returned)
                       \* | "panicked" (next() panicked)
    compute_addresses, \* the ComputeAddresses argument
    error,             \* the Error from_reader returned, or None
    address_network,   \* Dump::address_network
    state,             \* Dump::state
    block_hash,        \* Dump::block_hash
    utxo_set_size,     \* Dump::utxo_set_size
    item,              \* what the last call of next() returned
    overflow_checks,   \* whether the build panics on arithmetic overflow
    \* ---- history of the run (observations, not program state)
    hist,
    \* ---- the codecs taken alone: argument, function applied, result
    arg,
    fn,
    ret

dumpVars == <<data, pos, pc, compute_addresses, error, address_network,
              state, block_hash, utxo_set_size, item, overflow_checks, hist>>
codecVars == <<arg, fn, ret>>
vars == <<data, pos, pc, compute_addresses, error, address_network,
          state, block_hash, utxo_set_size, item, overflow_checks, hist,
          arg, fn, ret>>

None == "None"

Min(a, b) == IF a < b THEN a ELSE b

(***************************************************************************)
(* Natural numbers in little-endian base-256 limbs.                        *)
(***************************************************************************)
RECURSIVE Norm(_)
Norm(s) ==
    IF s = <<>> THEN <<>>
    ELSE IF s[Len(s)] = 0 THEN Norm(SubSeq(s, 1, Len(s) - 1))
    ELSE s

RECURSIVE FromInt(_)
FromInt(i) == IF i = 0 THEN <<>> ELSE <<i % 256>> \o FromInt(i \div 256)

RECURSIVE ToInt(_)
ToInt(s) == IF s = <<>> THEN 0 ELSE s[1] + 256 * ToInt(Tail(s))

\* s * m + c, for a small multiplier m and a small addend c
RECURSIVE MulAddRaw(_, _, _)
MulAddRaw(s, m, c) ==
    IF s = <<>> THEN FromInt(c)
    ELSE LET t == s[1] * m + c
         IN  <<t % 256>> \o MulAddRaw(Tail(s), m, t \div 256)

MulAdd(s, m, c) == Norm(MulAddRaw(s, m, c))

\* quotient and remainder of s by a small divisor m
RECURSIVE DivRemRaw(_, _)
DivRemRaw(s, m) ==
    IF s = <<>> THEN [q |-> <<>>, r |-> 0]
    ELSE LET hi == DivRemRaw(Tail(s), m)
             t  == hi.r * 256 + s[1]
         IN  [q |-> <<t \div m>> \o hi.q, r |-> t % m]

Div(s, m) == Norm(DivRemRaw(s, m).q)
Mod(s, m) == DivRemRaw(s, m).r

\* s - 1, for s > 0
RECURSIVE DecRaw(_)
DecRaw(s) ==
    IF s[1] > 0 THEN <<s[1] - 1>> \o Tail(s)
    ELSE <<255>> \o DecRaw(Tail(s))

Dec(s) == Norm(DecRaw(s))

\* a < b, both normalised
RECURSIVE LessSameLen(_, _)
LessSameLen(a, b) ==
    IF a = <<>> THEN FALSE
    ELSE LET n == Len(a)
         IN  \/ a[n] < b[n]
             \/ a[n] = b[n] /\ LessSameLen(SubSeq(a, 1, n - 1), SubSeq(b, 1, n - 1))

Less(a, b) == Len(a) < Len(b) \/ (Len(a) = Len(b) /\ LessSameLen(a, b))

\* the value written in decimal digits, most significant first
RECURSIVE FromDec(_)
FromDec(ds) ==
    IF ds = <<>> THEN <<>>
    ELSE MulAdd(FromDec(SubSeq(ds, 1, Len(ds) - 1)), 10, ds[Len(ds)])

Rep(b, n) == [i \in 1..n |-> b]

\* the low w bytes of a value (a cast to a narrower unsigned type; wrap-around)
Wrap(s, w) == Norm(SubSeq(s, 1, Min(Len(s), w)))
Fits(s, w) == Len(s) <= w

\* to_le_bytes() of a value that fits w bytes, and from_le_bytes()
ToLe(s, w) == s \o Rep(0, w - Len(s))
FromLe(bs) == Norm(bs)

U64_MAX == Rep(255, 8)
U32_MAX == Rep(255, 4)
U16_MAX == Rep(255, 2)

(***************************************************************************)
(* The reader: a cursor at offset p over the bytes bs (offset p is         *)
(* bs[p + 1]).  read_exact of n bytes either delivers them and advances by *)
(* n, or fails with an I/O error (UnexpectedEof) and leaves the cursor at  *)
(* the end of the data.                                                    *)
(***************************************************************************)
Ok(v, p) == [ok |-> TRUE, val |-> v, pos |-> p]
Err(e, p) == [ok |-> FALSE, err |-> e, pos |-> p]

ReadExact(bs, p, n) ==
    IF p + n <= Len(bs) THEN Ok(SubSeq(bs, p + 1, p + n), p + n)
    ELSE Err("Io", Len(bs))

(***************************************************************************)
(* VarInt (src/src/var_int.rs)                                             *)
(***************************************************************************)
Reverse(s) == [i \in 1..Len(s) |-> s[Len(s) + 1 - i]]

\* num <= 0x7f
IsLastDigit(num) == Len(num) = 0 \/ (Len(num) = 1 /\ num[1] <= 127)

\* (a variant without the offset: num = num >> 7)
RECURSIVE VarIntEncodeLoopNoOffset(_, _)
VarIntEncodeLoopNoOffset(num, first) ==
    LET tmp == Mod(num, 128) + (IF first THEN 0 ELSE 128)
    IN  <<tmp>> \o
        (IF IsLastDigit(num) THEN <<>>
         ELSE VarIntEncodeLoopNoOffset(Div(num, 128), FALSE))

\* the loop of consensus_encode: the bytes in the order they are pushed
RECURSIVE VarIntEncodeLoop(_, _)
VarIntEncodeLoop(num, first) ==
    LET tmp == Mod(num, 128) + (IF first THEN 0 ELSE 128)
    IN  <<tmp>> \o
        (IF IsLastDigit(num) THEN <<>>
         ELSE VarIntEncodeLoop(Dec(Div(num, 128)), FALSE))

VarIntEncode(n) == Reverse(VarIntEncodeLoop(n, TRUE))

\* n > u64::MAX >> 7
VarIntShiftOverflowsNever(n) == FALSE
VarIntShiftOverflows(n) == Less(Div(U64_MAX, 128), n)

\* n += 1
VarIntNoOffset(n) == n
VarIntOffset(n) == Wrap(MulAdd(n, 1, 1), 8)

\* n = (n << 7) | (b & 0x7f), in 64 bits
VarIntAccumulate(n, b) == Wrap(MulAdd(n, 128, b % 128), 8)

\* the loop of consensus_decode, the accumulator n being carried along
RECURSIVE VarIntDecodeLoop(_, _, _)
VarIntDecodeLoop(bs, p, n) ==
    IF p >= Len(bs) THEN Err("Io", Len(bs))
    ELSE LET b == bs[p + 1]
         IN  IF VarIntShiftOverflows(n) THEN Err("NonMinimalVarInt", p + 1)
             ELSE LET n1 == VarIntAccumulate(n, b)
                  IN  IF b >= 128
                      THEN IF n1 = U64_MAX THEN Err("NonMinimalVarInt", p + 1)
                           ELSE VarIntDecodeLoop(bs, p + 1, VarIntOffset(n1))
                      ELSE Ok(n1, p + 1)

VarIntDecode(bs, p) == VarIntDecodeLoop(bs, p, <<>>)

(***************************************************************************)
(* CompactSize (src/src/compact_size.rs)                                   *)
(***************************************************************************)
CompactSizeEncode(n) ==
    IF Less(n, FromInt(253)) THEN <<ToInt(n)>>
    ELSE IF ~Less(U16_MAX, n) THEN <<253>> \o ToLe(Wrap(n, 2), 2)
    ELSE IF ~Less(U32_MAX, n) THEN <<254>> \o ToLe(Wrap(n, 4), 4)
    ELSE <<255>> \o ToLe(n, 8)

CompactSizeWidthSwapped(size) ==
    IF size < 253 THEN 0 ELSE IF size = 253 THEN 4 ELSE IF size = 254 THEN 2 ELSE 8

\* the width of the integer that follows the prefix byte (0: the byte is the value)
CompactSizeWidth(size) ==
    IF size < 253 THEN 0 ELSE IF size = 253 THEN 2 ELSE IF size = 254 THEN 4 ELSE 8

CompactSizeDecode(bs, p) ==
    LET first == ReadExact(bs, p, 1)
    IN  IF ~first.ok THEN first
        ELSE LET size == first.val[1]
                 w    == CompactSizeWidth(size)
             IN  IF w = 0 THEN Ok(FromInt(size), first.pos)
                 ELSE LET num == ReadExact(bs, first.pos, w)
                      IN  IF ~num.ok THEN num
                          ELSE Ok(FromLe(num.val), num.pos)

(***************************************************************************)
(* Amount (src/src/amount.rs).  The arithmetic is u64: a result is the     *)
(* value in 64 bits (what a build without overflow checks computes) and    *)
(* whether an intermediate value left 64 bits (where a build with overflow *)
(* checks panics).                                                         *)
(***************************************************************************)
Arith(v, ovf) == [val |-> v, ovf |-> ovf]

\* while ((n % 10) == 0) && e < 9 { n /= 10; e += 1; }
RECURSIVE StripZeros(_, _)
StripZeros(n, e) ==
    IF Mod(n, 10) = 0 /\ e < 9 THEN StripZeros(Div(n, 10), e + 1)
    ELSE [n |-> n, e |-> e]

\* 1 + (n * 9 + d - 1) * 10 + e
CompressSmallExp(n, d, e) ==
    LET t1 == MulAdd(n, 9, 0)
        t2 == MulAdd(t1, 1, d)
        t3 == Dec(t2)
        t4 == MulAdd(t3, 10, 0)
        t5 == MulAdd(t4, 1, 1)
        t6 == MulAdd(t5, 1, e)
    IN  Arith(Wrap(t6, 8), \E t \in {t1, t2, t3, t4, t5, t6} : ~Fits(t, 8))

\* 1 + (n - 1) * 10 + 9
CompressExp9(n) ==
    LET t1 == Dec(n)
        t2 == MulAdd(t1, 10, 0)
        t3 == MulAdd(t2, 1, 1)
        t4 == MulAdd(t3, 1, 9)
    IN  Arith(Wrap(t4, 8), \E t \in {t2, t3, t4} : ~Fits(t, 8))

compress(n0) ==
    IF n0 = <<>> THEN Arith(<<>>, FALSE)
    ELSE LET s == StripZeros(n0, 0)
         IN  IF s.e < 9
             THEN CompressSmallExp(Div(s.n, 10), Mod(s.n, 10), s.e)
             ELSE CompressExp9(s.n)

\* while e > 0 { n *= 10; e -= 1; }
RECURSIVE TimesPow10(_, _)
TimesPow10(n, e) ==
    IF e = 0 THEN Arith(n, FALSE)
    ELSE LET t == MulAdd(n, 10, 0)
             r == TimesPow10(Wrap(t, 8), e - 1)
         IN  Arith(r.val, r.ovf \/ ~Fits(t, 8))

DecompressMantissaDigitFromZero(x, e) ==
    IF e < 9 THEN MulAdd(Div(x, 9), 10, Mod(x, 9))
    ELSE MulAdd(x, 1, 1)

\* the n that decompress computes before scaling by 10^e, from x = (x - 1) / 10
DecompressMantissa(x, e) ==
    IF e < 9 THEN MulAdd(Div(x, 9), 10, Mod(x, 9) + 1)
    ELSE MulAdd(x, 1, 1)

decompress(x0) ==
    IF x0 = <<>> THEN Arith(<<>>, FALSE)
    ELSE LET x1 == Dec(x0)
             e  == Mod(x1, 10)
             x2 == Div(x1, 10)
         IN  TimesPow10(DecompressMantissa(x2, e), e)

\* Amount::consensus_decode: a VarInt, decompressed
AmountDecode(bs, p) ==
    LET v == VarIntDecode(bs, p)
    IN  IF ~v.ok THEN v
        ELSE LET a == decompress(v.val)
             IN  [ok |-> TRUE, val |-> a.val, pos |-> v.pos, ovf |-> a.ovf]

(***************************************************************************)
(* Script (src/src/script.rs).  usize is taken to be 64 bits wide.         *)
(***************************************************************************)
NUM_SPECIAL_SCRIPTS == 6
MAX_SCRIPT_SIZE == 10000

OP_DUP == 118
OP_HASH160 == 169
OP_EQUALVERIFY == 136
OP_EQUAL == 135
OP_CHECKSIG == 172
OP_RETURN == 106
OP_PUSHBYTES_20 == 20
OP_PUSHBYTES_33 == 33
OP_PUSHBYTES_65 == 65

\* ScriptBuf::new_p2pkh and ScriptBuf::new_p2sh
new_p2pkh(hash) == <<OP_DUP, OP_HASH160, OP_PUSHBYTES_20>> \o hash \o <<OP_EQUALVERIFY, OP_CHECKSIG>>
new_p2sh(hash) == <<OP_HASH160, OP_PUSHBYTES_20>> \o hash \o <<OP_EQUAL>>

(* PublicKey::from_slice and serialize_uncompressed are elliptic-curve     *)
(* operations of the secp256k1 library.  Of the curve the model keeps two  *)
(* facts: the x-coordinate 0 is on no point of the curve, and an           *)
(* x-coordinate of 32 bytes 0xff is not below the field prime; both fail   *)
(* to parse.  Every other x-coordinate is taken to parse, the y-coordinate *)
(* of its point being an opaque 32 bytes of the parity the prefix names.   *)
PublicKeyParses(compressed) ==
    LET x == Tail(compressed)
    IN  x # Rep(0, 32) /\ x # Rep(255, 32)

serialize_uncompressed(compressed) ==
    <<4>> \o Tail(compressed) \o Rep(compressed[1], 32)

\* s - c for s >= c, c small
RECURSIVE SubSmall(_, _)
SubSmall(s, c) == IF c = 0 THEN s ELSE SubSmall(Dec(s), c - 1)

SpecialPayloadLenHashOnly(sel) == 20

\* the match on size: the length of the array read_exact fills for the
\* special scripts
SpecialPayloadLen(sel) == IF sel <= 1 THEN 20 ELSE 32

\* (a variant that keeps a script of any size)
ExceedsMaxScriptSizeNever(size) == FALSE

\* size > MAX_SCRIPT_SIZE
ExceedsMaxScriptSize(size) == Less(FromInt(MAX_SCRIPT_SIZE), size)

\* Vec::with_capacity(size) panics ("capacity overflow") above isize::MAX bytes
CapacityOverflow(size) == Len(size) > 8 \/ (Len(size) = 8 /\ size[8] >= 128)

\* read_exact into a buffer of `size` bytes, size being a 64-bit number
ReadExactBig(bs, p, size) ==
    IF Fits(size, 3) THEN ReadExact(bs, p, ToInt(size)) ELSE Err("Io", Len(bs))

\* a result of the decode also names the size of the payload buffer it
\* allocated and whether it panicked

ScriptOk(script, p, alloc) ==
    [ok |-> TRUE, val |-> script, pos |-> p, alloc |-> alloc, panic |-> FALSE]
ScriptErr(e, p, alloc) ==
    [ok |-> FALSE, err |-> e, pos |-> p, alloc |-> alloc, panic |-> FALSE]
ScriptPanic(p, alloc) ==
    [ok |-> FALSE, err |-> "panic", pos |-> p, alloc |-> alloc, panic |-> TRUE]

ScriptDecodeSpecial(bs, p, sel) ==
    LET n == SpecialPayloadLen(sel)
        r == ReadExact(bs, p, n)
    IN  IF ~r.ok THEN ScriptErr("Io", r.pos, FromInt(n))
        ELSE CASE sel = 0 -> ScriptOk(new_p2pkh(r.val), r.pos, FromInt(n))
               [] sel = 1 -> ScriptOk(new_p2sh(r.val), r.pos, FromInt(n))
               [] sel \in {2, 3} ->
                    ScriptOk(<<OP_PUSHBYTES_33, sel>> \o r.val \o <<OP_CHECKSIG>>,
                             r.pos, FromInt(n))
               [] OTHER ->
                    LET compressed_pubkey_bytes == <<sel - 2>> \o r.val
                    IN  IF ~PublicKeyParses(compressed_pubkey_bytes)
                        THEN ScriptErr("ParseFailed", r.pos, FromInt(n))
                        ELSE ScriptOk(<<OP_PUSHBYTES_65>>
                                        \o serialize_uncompressed(compressed_pubkey_bytes)
                                        \o <<OP_CHECKSIG>>,
                                      r.pos, FromInt(n))

ScriptDecodeRaw(bs, p, sel) ==
    LET size == SubSmall(sel, NUM_SPECIAL_SCRIPTS)
    IN  IF CapacityOverflow(size) THEN ScriptPanic(p, size)
        ELSE LET r == ReadExactBig(bs, p, size)
             IN  IF ~r.ok THEN ScriptErr("Io", r.pos, size)
                 ELSE IF ExceedsMaxScriptSize(size)
                      THEN ScriptOk(<<OP_RETURN>>, r.pos, size)
                      ELSE ScriptOk(r.val, r.pos, size)

ScriptDecode(bs, p) ==
    LET v == VarIntDecode(bs, p)
    IN  IF ~v.ok THEN ScriptErr(v.err, v.pos, <<>>)
        ELSE IF Less(v.val, FromInt(NUM_SPECIAL_SCRIPTS))
             THEN ScriptDecodeSpecial(bs, v.pos, ToInt(v.val))
             ELSE ScriptDecodeRaw(bs, v.pos, v.val)

(***************************************************************************)
(* Dump (src/src/lib.rs)                                                   *)
(***************************************************************************)
SNAPSHOT_MAGIC == <<117, 116, 120, 111, 255>>

NeedTxid == [tag |-> "NeedTxid"]
Legacy == [tag |-> "Legacy"]
HaveTxid(txid, out_points_remaining) ==
    [tag |-> "HaveTxid", txid |-> txid, out_points_remaining |-> out_points_remaining]

No == [tag |-> "No"]
Detect == [tag |-> "Detect"]
Specify(network) == [tag |-> "Specify", network |-> network]

\* bitcoin::Network::try_from(Magic): the network magics the bitcoin library knows
NetworkOfMagic(magic) ==
    CASE magic = <<249, 190, 180, 217>> -> "Bitcoin"
      [] magic = <<11, 17, 9, 7>>       -> "Testnet"
      [] magic = <<10, 3, 207, 64>>     -> "Signet"
      [] magic = <<250, 191, 181, 218>> -> "Regtest"
      [] OTHER -> None

NoError == [kind |-> "None"]
IoError == [kind |-> "Io"]

ResolveModernUnchecked(ca, network) ==
    CASE ca.tag = "No" -> [ok |-> TRUE, val |-> None]
      [] ca.tag = "Detect" -> [ok |-> TRUE, val |-> network]
      [] OTHER -> [ok |-> TRUE, val |-> ca.network]

\* the match on compute_addresses of a snapshot with magic bytes:
\* the address network, or the error returned
ResolveModern(ca, network) ==
    CASE ca.tag = "No" -> [ok |-> TRUE, val |-> None]
      [] ca.tag = "Detect" -> [ok |-> TRUE, val |-> network]
      [] ca.tag = "Specify" /\ ca.network = network -> [ok |-> TRUE, val |-> network]
      [] OTHER -> [ok |-> FALSE,
                   err |-> [kind |-> "NetworkMismatch", detected |-> network,
                            specified |-> ca.network]]

\* the match on compute_addresses of a legacy dump
ResolveLegacy(ca) ==
    CASE ca.tag = "No" -> [ok |-> TRUE, val |-> None]
      [] ca.tag = "Specify" -> [ok |-> TRUE, val |-> ca.network]
      [] OTHER -> [ok |-> FALSE, err |-> [kind |-> "NetworkDetect"]]

\* what from_reader returns: a Dump (ok) with the reader at p, or an Error
Built(p, st, net, hash, size, rewinds) ==
    [ok |-> TRUE, pos |-> p, state |-> st, address_network |-> net,
     block_hash |-> hash, utxo_set_size |-> size, rewinds |-> rewinds]
Failed(e, p, rewinds) == [ok |-> FALSE, err |-> e, pos |-> p, rewinds |-> rewinds]

\* (a variant in which a declared count of 0 leaves nothing to read)
HeaderTailEmptySetSkipsBody(bs, p, st, net, rewinds) ==
    LET hash == ReadExact(bs, p, 32)
    IN  IF ~hash.ok THEN Failed(IoError, hash.pos, rewinds)
        ELSE LET size == ReadExact(bs, hash.pos, 8)
             IN  IF ~size.ok THEN Failed(IoError, size.pos, rewinds)
                 ELSE Built(IF FromLe(size.val) = <<>> THEN Len(bs) ELSE size.pos,
                            st, net, hash.val, FromLe(size.val), rewinds)

\* the tail both layouts share: block hash and number of entries
HeaderTail(bs, p, st, net, rewinds) ==
    LET hash == ReadExact(bs, p, 32)
    IN  IF ~hash.ok THEN Failed(IoError, hash.pos, rewinds)
        ELSE LET size == ReadExact(bs, hash.pos, 8)
             IN  IF ~size.ok THEN Failed(IoError, size.pos, rewinds)
                 ELSE Built(size.pos, st, net, hash.val, FromLe(size.val), rewinds)

HeaderModern(bs, p, ca) ==
    LET version == ReadExact(bs, p, 2)
    IN  IF ~version.ok THEN Failed(IoError, version.pos, 0)
        ELSE IF FromLe(version.val) # FromInt(2)
        THEN Failed([kind |-> "UnknownVersion", version |-> FromLe(version.val)],
                    version.pos, 0)
        ELSE LET magic == ReadExact(bs, version.pos, 4)
             IN  IF ~magic.ok THEN Failed(IoError, magic.pos, 0)
                 ELSE LET network == NetworkOfMagic(magic.val)
                      IN  IF network = None
                          THEN Failed([kind |-> "UnknownMagic"], magic.pos, 0)
                          ELSE LET res == ResolveModern(ca, network)
                               IN  IF ~res.ok THEN Failed(res.err, magic.pos, 0)
                                   ELSE HeaderTail(bs, magic.pos, NeedTxid, res.val, 0)

\* (a variant that reads on after the five bytes looked at)
HeaderLegacyNoRewind(bs, ca) ==
    LET res == ResolveLegacy(ca)
    IN  IF ~res.ok THEN Failed(res.err, 5, 0)
        ELSE HeaderTail(bs, 5, Legacy, res.val, 0)

HeaderLegacy(bs, ca) ==
    LET res == ResolveLegacy(ca)
    IN  IF ~res.ok THEN Failed(res.err, 0, 1)
        ELSE HeaderTail(bs, 0, Legacy, res.val, 1)

ParseHeader(bs, ca) ==
    LET possible_magic == ReadExact(bs, 0, 5)
    IN  IF ~possible_magic.ok THEN Failed(IoError, possible_magic.pos, 0)
        ELSE IF possible_magic.val = SNAPSHOT_MAGIC
             THEN HeaderModern(bs, possible_magic.pos, ca)
             ELSE HeaderLegacy(bs, ca)

\* Code::consensus_decode
CodeDecode(bs, p) ==
    LET v == VarIntDecode(bs, p)
    IN  IF ~v.ok THEN v
        ELSE IF ~Fits(v.val, 4) THEN Err("ParseFailed", v.pos)
        ELSE Ok([height |-> Div(v.val, 2), is_coinbase |-> (Mod(v.val, 2) = 1)], v.pos)

\* out_points_remaining.saturating_sub(1)
SaturatingDecForgotten(n) == n
SaturatingDec(n) == IF n = <<>> THEN <<>> ELSE Dec(n)

\* the out point and the state next() leaves, by the state it is called in;
\* on a failed decode (ok = FALSE) next() returns None with the state it has
\* assigned so far
OutPointStep(ok, p, st, txid, vout) ==
    [ok |-> ok, pos |-> p, state |-> st, out_point |-> [txid |-> txid, vout |-> vout]]

\* (a variant that moves to NeedTxid one output early)
OutPointHaveTxidEarly(bs, p, st) ==
    LET v == CompactSizeDecode(bs, p)
    IN  IF ~v.ok THEN OutPointStep(FALSE, v.pos, st, <<>>, <<>>)
        ELSE LET out_points_remaining == SaturatingDec(st.out_points_remaining)
             IN  OutPointStep(TRUE, v.pos,
                              IF SaturatingDec(out_points_remaining) = <<>> THEN NeedTxid
                              ELSE HaveTxid(st.txid, out_points_remaining),
                              st.txid, Wrap(v.val, 4))

OutPointHaveTxid(bs, p, st) ==
    LET v == CompactSizeDecode(bs, p)
    IN  IF ~v.ok THEN OutPointStep(FALSE, v.pos, st, <<>>, <<>>)
        ELSE LET out_points_remaining == SaturatingDec(st.out_points_remaining)
             IN  OutPointStep(TRUE, v.pos,
                              IF out_points_remaining = <<>> THEN NeedTxid
                              ELSE HaveTxid(st.txid, out_points_remaining),
                              st.txid, Wrap(v.val, 4))

OutPointNeedTxid(bs, p, st) ==
    LET txid == ReadExact(bs, p, 32)
    IN  IF ~txid.ok THEN OutPointStep(FALSE, txid.pos, st, <<>>, <<>>)
        ELSE LET count == CompactSizeDecode(bs, txid.pos)
             IN  IF ~count.ok THEN OutPointStep(FALSE, count.pos, st, <<>>, <<>>)
                 ELSE LET out_points_remaining == SaturatingDec(count.val)
                          v == CompactSizeDecode(bs, count.pos)
                      IN  IF ~v.ok THEN OutPointStep(FALSE, v.pos, st, <<>>, <<>>)
                          ELSE OutPointStep(TRUE, v.pos,
                                            IF out_points_remaining # <<>>
                                            THEN HaveTxid(txid.val, out_points_remaining)
                                            ELSE st,
                                            txid.val, Wrap(v.val, 4))

\* OutPoint::consensus_decode: a txid and a 4-byte little-endian vout
OutPointLegacy(bs, p, st) ==
    LET txid == ReadExact(bs, p, 32)
    IN  IF ~txid.ok THEN OutPointStep(FALSE, txid.pos, st, <<>>, <<>>)
        ELSE LET v == ReadExact(bs, txid.pos, 4)
             IN  IF ~v.ok THEN OutPointStep(FALSE, v.pos, st, <<>>, <<>>)
                 ELSE OutPointStep(TRUE, v.pos, st, txid.val, FromLe(v.val))

OutPointDecode(bs, p, st) ==
    CASE st.tag = "HaveTxid" -> OutPointHaveTxid(bs, p, st)
      [] st.tag = "NeedTxid" -> OutPointNeedTxid(bs, p, st)
      [] OTHER -> OutPointLegacy(bs, p, st)

(* Address::from_script of the bitcoin library: an address exists for the  *)
(* pay-to-pubkey-hash and pay-to-script-hash templates and for witness     *)
(* programs; the address is kept as its kind, network and payload.         *)
IsP2pkh(script) ==
    Len(script) = 25 /\ SubSeq(script, 1, 3) = <<OP_DUP, OP_HASH160, OP_PUSHBYTES_20>>
                     /\ SubSeq(script, 24, 25) = <<OP_EQUALVERIFY, OP_CHECKSIG>>
IsP2sh(script) ==
    Len(script) = 23 /\ SubSeq(script, 1, 2) = <<OP_HASH160, OP_PUSHBYTES_20>>
                     /\ script[23] = OP_EQUAL
IsWitnessProgram(script) ==
    /\ Len(script) >= 4 /\ Len(script) <= 42
    /\ script[1] = 0 \/ (script[1] >= 81 /\ script[1] <= 96)
    /\ script[2] = Len(script) - 2
    /\ script[1] = 0 => Len(script) \in {22, 34}

AddressFromScript(script, network) ==
    IF network = None THEN <<>>
    ELSE IF IsP2pkh(script) THEN <<"p2pkh", network, SubSeq(script, 4, 23)>>
    ELSE IF IsP2sh(script) THEN <<"p2sh", network, SubSeq(script, 3, 22)>>
    ELSE IF IsWitnessProgram(script) THEN <<"segwit", network, script>>
    ELSE <<>>

ItemNone == [kind |-> "None"]
ItemPanic == [kind |-> "Panic"]
Some(tx_out) == [kind |-> "Some", tx_out |-> tx_out]

\* what a call of next() does: the item returned (None, Some(TxOut), or a
\* panic), the reader's position and the state left behind
Pulled(it, p, st) == [item |-> it, pos |-> p, state |-> st]

PullTail(bs, op, net, checks) ==
    LET code == CodeDecode(bs, op.pos)
    IN  IF ~code.ok THEN Pulled(ItemNone, code.pos, op.state)
        ELSE LET amount == AmountDecode(bs, code.pos)
             IN  IF ~amount.ok THEN Pulled(ItemNone, amount.pos, op.state)
                 ELSE IF amount.ovf /\ checks THEN Pulled(ItemPanic, amount.pos, op.state)
                 ELSE LET script == ScriptDecode(bs, amount.pos)
                      IN  IF script.panic THEN Pulled(ItemPanic, script.pos, op.state)
                          ELSE IF ~script.ok THEN Pulled(ItemNone, script.pos, op.state)
                          ELSE Pulled(Some([address |-> AddressFromScript(script.val, net),
                                            amount |-> amount.val,
                                            height |-> code.val.height,
                                            is_coinbase |-> code.val.is_coinbase,
                                            out_point |-> op.out_point,
                                            script_pubkey |-> script.val]),
                                      script.pos, op.state)

Pull(bs, p, st, net, checks) ==
    LET op == OutPointDecode(bs, p, st)
    IN  IF ~op.ok THEN Pulled(ItemNone, op.pos, op.state)
        ELSE PullTail(bs, op, net, checks)

(***************************************************************************)
(* The inputs of the record stream: dump files, byte by byte.  A file is a *)
(* header followed by a body; a body is a run of well-formed records       *)
(* followed by up to MaxChunks pieces taken in any order, so that records  *)
(* are also cut short, malformed and misaligned.                           *)
(***************************************************************************)
MaxChunks == 3     \* pieces freely concatenated in a body
MaxGroup == 3      \* outputs of the well-formed group (records) a body starts with
MaxPulls == 6      \* calls of next() in a run

TXID_A == Rep(17, 32)
TXID_B == Rep(34, 32)
BLOCK_HASH == Rep(170, 32)
MAGIC_SIGNET == <<10, 3, 207, 64>>
MAGIC_BITCOIN == <<249, 190, 180, 217>>
MAGIC_TESTNET == <<11, 17, 9, 7>>
MAGIC_REGTEST == <<250, 191, 181, 218>>
MAGIC_UNKNOWN == <<1, 2, 3, 4>>

\* an output entry of the modern layout: CompactSize(vout), VarInt(code),
\* VarInt(compressed amount), compressed script
EntryA == <<0, 91, 119, 6>>                   \* vout 0, height 45 coinbase, raw empty script
EntryB == <<1, 2, 0, 0>> \o Rep(51, 20)       \* vout 1, height 1, pay-to-pubkey-hash
GoodEntries == {EntryA, EntryB}

\* entries whose decode fails or panics part of the way
BadCodeEntry == <<0>> \o VarIntEncode(<<0, 0, 0, 0, 1>>)          \* code 2^32
BadKeyEntry == <<0, 2, 0, 4>> \o Rep(0, 32)                       \* x = 0 is off the curve
OverflowAmountEntry == <<0, 2>> \o VarIntEncode(Rep(255, 8)) \o <<6>>
HugeScriptEntry == <<0, 2, 0>> \o VarIntEncode(Rep(255, 8))

GroupHead(txid, c) == txid \o CompactSizeEncode(FromInt(c))

RECURSIVE Entries(_)
Entries(n) == IF n = 0 THEN <<>> ELSE Entries(n - 1) \o (IF n % 2 = 1 THEN EntryA ELSE EntryB)

\* a group of n outputs whose count field holds c
Group(txid, c, n) == GroupHead(txid, c) \o Entries(n)

RECURSIVE LegacyRecords(_)
LegacyRecords(n) ==
    IF n = 0 THEN <<>>
    ELSE LegacyRecords(n - 1) \o TXID_A \o <<n, 0, 0>> \o (IF n % 2 = 1 THEN EntryA ELSE EntryB)

\* the pieces of a body, by layout
ModernChunks ==
    {GroupHead(TXID_B, 1), GroupHead(TXID_B, 2), EntryA, EntryB, BadCodeEntry, BadKeyEntry}
LegacyChunks ==
    {TXID_B \o <<0, 0, 0>>, EntryA, EntryB, BadCodeEntry, BadKeyEntry}

RECURSIVE ChunkSeqs(_, _)
ChunkSeqs(chunks, n) ==
    IF n = 0 THEN {<<>>}
    ELSE LET shorter == ChunkSeqs(chunks, n - 1)
         IN  shorter \cup {s \o c : s \in shorter, c \in chunks}

ModernHeader(version, magic, count) ==
    SNAPSHOT_MAGIC \o ToLe(FromInt(version), 2) \o magic \o BLOCK_HASH
                   \o ToLe(FromInt(count), 8)
LegacyHeader(count) == BLOCK_HASH \o ToLe(FromInt(count), 8)

Prefixes(s, lens) == {SubSeq(s, 1, Min(n, Len(s))) : n \in lens}

\* headers of every kind, whole and cut short, before at most one record
HeaderFiles ==
    LET modern == {ModernHeader(v, m, c) : v \in {1, 2},
                       m \in {MAGIC_SIGNET, MAGIC_BITCOIN, MAGIC_TESTNET, MAGIC_REGTEST,
                              MAGIC_UNKNOWN},
                       c \in {0, 2}}
        legacy == {LegacyHeader(c) : c \in {0, 2}}
    IN  UNION {Prefixes(h, {0, 3, 5, 6, 9, 20, 45}) : h \in modern}
        \cup UNION {Prefixes(h, {20, 36}) : h \in legacy}
        \cup {h \o b : h \in modern, b \in {<<>>, Group(TXID_A, 1, 1)}}
        \cup {h \o b : h \in legacy, b \in {<<>>, LegacyRecords(1)}}

\* bodies after a well-formed header
ModernBodies ==
    ChunkSeqs(ModernChunks, MaxChunks)
    \cup {Group(TXID_A, c, n) \o t : c \in 0..MaxGroup, n \in 1..MaxGroup,
                                     t \in ChunkSeqs(ModernChunks, 2)}
LegacyBodies ==
    ChunkSeqs(LegacyChunks, MaxChunks)
    \cup {LegacyRecords(n) \o t : n \in 1..MaxGroup, t \in ChunkSeqs(LegacyChunks, 2)}

BodyFiles ==
    {ModernHeader(2, MAGIC_SIGNET, 2) \o b : b \in ModernBodies}
    \cup {LegacyHeader(2) \o b : b \in LegacyBodies}

\* files with a record whose decode overflows: the amount's arithmetic, or
\* the capacity of the script's buffer
OverflowFiles ==
    {h \o e \o EntryA :
        h \in {ModernHeader(2, MAGIC_SIGNET, 2) \o GroupHead(TXID_A, 2),
               LegacyHeader(2) \o TXID_A \o <<0, 0, 0>>},
        e \in {OverflowAmountEntry, HugeScriptEntry}}

Configs == {No, Detect, Specify("Signet"), Specify("Bitcoin")}

CodecIdle == arg = <<>> /\ fn = "none" /\ ret = <<>>

Init ==
    /\ \/ /\ data \in HeaderFiles
          /\ compute_addresses \in Configs
          /\ overflow_checks = FALSE
       \/ /\ data \in BodyFiles
          /\ compute_addresses = Specify("Signet")
          /\ overflow_checks = FALSE
       \/ /\ data \in OverflowFiles
          /\ compute_addresses = No
          /\ overflow_checks \in BOOLEAN
    /\ pos = 0
    /\ pc = "new"
    /\ error = NoError
    /\ address_network = None
    /\ state = NeedTxid
    /\ block_hash = <<>>
    /\ utxo_set_size = <<>>
    /\ item = ItemNone
    /\ hist = [pulls |-> <<>>, rewinds |-> 0]
    /\ CodecIdle

\* Dump::from_reader(reader, compute_addresses)
from_reader ==
    /\ pc = "new"
    /\ LET r == ParseHeader(data, compute_addresses)
       IN  /\ pos' = r.pos
           /\ hist' = [hist EXCEPT !.rewinds = r.rewinds]
           /\ IF r.ok
              THEN /\ pc' = "iter"
                   /\ state' = r.state
                   /\ address_network' = r.address_network
                   /\ block_hash' = r.block_hash
                   /\ utxo_set_size' = r.utxo_set_size
                   /\ UNCHANGED error
              ELSE /\ pc' = "failed"
                   /\ error' = r.err
                   /\ UNCHANGED <<state, address_network, block_hash, utxo_set_size>>
    /\ UNCHANGED <<data, compute_addresses, item, overflow_checks>>
    /\ UNCHANGED codecVars

\* <Dump as Iterator>::next(&mut self)
next ==
    /\ pc = "iter"
    /\ Len(hist.pulls) < MaxPulls
    /\ LET r == Pull(data, pos, state, address_network, overflow_checks)
       IN  /\ pos' = r.pos
           /\ state' = r.state
           /\ item' = r.item
           /\ pc' = IF r.item = ItemPanic THEN "panicked" ELSE "iter"
           /\ hist' = [hist EXCEPT !.pulls = Append(@,
                         [before |-> state, start |-> pos, end |-> r.pos,
                          item |-> r.item, after |-> r.state])]
    /\ UNCHANGED <<data, compute_addresses, error, address_network, block_hash,
                   utxo_set_size, overflow_checks>>
    /\ UNCHANGED codecVars

Next == from_reader \/ next

Spec == Init /\ [][Next]_vars

(***************************************************************************)
(* Properties of the record stream and of the header parser (Spec).        *)
(***************************************************************************)
Pulls == hist.pulls
PullIds == 1..Len(Pulls)

\* C1: once a call of next() has returned None, every later call on the
\* same stream returns None as well, whatever bytes remain in the reader.
C1_EndIsPermanent ==
    \A i, j \in PullIds :
        (i < j /\ Pulls[i].item = ItemNone) => Pulls[j].item = ItemNone

\* the layout of the data, read off the bytes without the decoder: the end
\* of n well-formed output entries that start at offset p, or -1
RECURSIVE EntriesEnd(_, _)
EntriesEnd(p, n) ==
    IF n = 0 THEN p
    ELSE LET here == {e \in GoodEntries :
                         p + Len(e) <= Len(data) /\ SubSeq(data, p + 1, p + Len(e)) = e}
         IN  IF here = {} THEN -1
             ELSE EntriesEnd(p + Len(CHOOSE e \in here : TRUE), n - 1)

\* at offset p lies a group: a txid, a count field CompactSize(c), n entries
GroupAt(p, c, n) ==
    LET field == CompactSizeEncode(FromInt(c))
    IN  /\ p + 32 + Len(field) <= Len(data)
        /\ SubSeq(data, p + 33, p + 32 + Len(field)) = field
        /\ EntriesEnd(p + 32 + Len(field), n) >= 0

GroupEnd(p, c, n) == EntriesEnd(p + 32 + Len(CompactSizeEncode(FromInt(c))), n)

\* the calls i, i+1, ... of next() yield the n records of the group at the
\* offset where call i started, and NeedTxid returns only after the n-th
GroupYields(i, c, n) ==
    LET p == Pulls[i].start
    IN  \A j \in 0..(n - 1) :
            i + j <= Len(Pulls) =>
                LET q == Pulls[i + j]
                IN  /\ q.item.kind = "Some"
                    /\ q.item.tx_out.out_point.txid = SubSeq(data, p + 1, p + 32)
                    /\ q.item.tx_out.out_point.vout = FromInt(data[q.start + 1 +
                            (IF j = 0 THEN 32 + Len(CompactSizeEncode(FromInt(c))) ELSE 0)])
                    /\ (q.after = NeedTxid) <=> (j = n - 1)
                    /\ j < n - 1 => q.after = HaveTxid(SubSeq(data, p + 1, p + 32),
                                                       FromInt(n - 1 - j))
                    /\ j = n - 1 => q.end = GroupEnd(p, c, n)

\* C2 as stated: a group whose count field holds n_outputs - 1 yields its
\* n_outputs records, and NeedTxid returns only after the last of them.
C2_CountFieldMinusOne ==
    \A i \in PullIds : \A n \in 1..MaxPulls :
        (Pulls[i].before = NeedTxid /\ GroupAt(Pulls[i].start, n - 1, n))
            => GroupYields(i, n - 1, n)

\* C2, amended: a group whose count field holds n_outputs (n_outputs >= 1)
\* yields exactly its n_outputs records, all with the group's txid and each
\* with its own vout, and NeedTxid returns only after the n_outputs-th.
C2_CountFieldIsCount ==
    \A i \in PullIds : \A n \in 1..MaxPulls :
        (Pulls[i].before = NeedTxid /\ GroupAt(Pulls[i].start, n, n))
            => GroupYields(i, n, n)

\* a group of three outputs has been read in full, and a record of the next
\* group after it
C2_Witness ==
    \E i \in PullIds :
        /\ Pulls[i].before = NeedTxid
        /\ GroupAt(Pulls[i].start, 3, 3)
        /\ i + 3 <= Len(Pulls)
        /\ Pulls[i + 3].item.kind = "Some"
        /\ Pulls[i + 3].item.tx_out.out_point.txid # Pulls[i].item.tx_out.out_point.txid

\* what a call made in HaveTxid must leave: the count less one, NeedTxid at 0
Decremented(st) ==
    LET n == Dec(st.out_points_remaining)
    IN  IF n = <<>> THEN NeedTxid ELSE HaveTxid(st.txid, n)

HaveTxidCountPositive ==
    state.tag = "HaveTxid" => state.out_points_remaining # <<>>

\* C3 as stated: a HaveTxid state has a count >= 1, and every call made in
\* HaveTxid leaves the count less one, NeedTxid exactly when that is 0.
C3_EveryPullDecrements ==
    /\ HaveTxidCountPositive
    /\ \A i \in PullIds :
           Pulls[i].before.tag = "HaveTxid" => Pulls[i].after = Decremented(Pulls[i].before)

\* C3, amended: a HaveTxid state has a count >= 1, and every call made in
\* HaveTxid that decodes its vout leaves the count less one, NeedTxid exactly
\* when that is 0; a call whose vout cannot be decoded leaves the state as is.
C3_DecodedVoutDecrements ==
    /\ HaveTxidCountPositive
    /\ \A i \in PullIds :
           Pulls[i].before.tag = "HaveTxid" =>
               LET vout_read ==
                       /\ Pulls[i].start < Len(data)
                       /\ Pulls[i].start + 1 + CompactSizeWidth(data[Pulls[i].start + 1])
                              <= Len(data)
               IN  Pulls[i].after = IF vout_read THEN Decremented(Pulls[i].before)
                                    ELSE Pulls[i].before

\* a count of 2 went to 1 and then to NeedTxid, and a call in HaveTxid failed
\* after its vout was decoded, the count being decremented all the same
C3_Witness ==
    /\ \E i \in PullIds :
           /\ Pulls[i].before.tag = "HaveTxid"
           /\ Pulls[i].before.out_points_remaining = FromInt(2)
           /\ i + 1 <= Len(Pulls)
           /\ Pulls[i + 1].before.tag = "HaveTxid"
           /\ Pulls[i + 1].after = NeedTxid
    /\ \E i \in PullIds :
           /\ Pulls[i].before.tag = "HaveTxid"
           /\ Pulls[i].item = ItemNone
           /\ Pulls[i].after # Pulls[i].before

\* the header as it lies in the data
HasMagic == Len(data) >= 5 /\ SubSeq(data, 1, 5) = SNAPSHOT_MAGIC
IsLegacyFile == Len(data) >= 5 /\ ~HasMagic
\* a modern header up to its network magic: version 2 and a known network
MappedNetwork ==
    IF HasMagic /\ Len(data) >= 11 /\ SubSeq(data, 6, 7) = <<2, 0>>
    THEN NetworkOfMagic(SubSeq(data, 8, 11))
    ELSE None
IsModernFile == MappedNetwork # None
NetworkMismatch(detected, specified) ==
    [kind |-> "NetworkMismatch", detected |-> detected, specified |-> specified]

\* C4: the address network from_reader resolves.  Modern: No gives none,
\* Detect the network of the file's magic, Specify(s) gives s when s is that
\* network and fails with NetworkMismatch{detected, specified} otherwise.
\* Legacy: No gives none, Specify(s) gives s as it is, Detect fails with
\* NetworkDetect.  After an error there is no stream: next() is never called.
C4_NetworkResolution ==
    pc # "new" =>
        /\ pc = "failed" => (error # NoError /\ Pulls = <<>> /\ item = ItemNone)
        /\ pc # "failed" => error = NoError
        /\ (IsModernFile /\ pc # "failed") =>
               address_network =
                   CASE compute_addresses = No -> None
                     [] compute_addresses = Detect -> MappedNetwork
                     [] OTHER -> compute_addresses.network
        /\ (IsModernFile /\ compute_addresses.tag = "Specify") =>
               IF compute_addresses.network = MappedNetwork
               THEN error.kind \in {"None", "Io"}
               ELSE /\ pc = "failed"
                    /\ error = NetworkMismatch(MappedNetwork, compute_addresses.network)
        /\ (IsModernFile /\ compute_addresses.tag # "Specify") =>
               error.kind \in {"None", "Io"}
        /\ (IsLegacyFile /\ pc # "failed") =>
               address_network =
                   CASE compute_addresses = No -> None
                     [] compute_addresses = Detect -> "unreachable"
                     [] OTHER -> compute_addresses.network
        /\ (IsLegacyFile /\ compute_addresses = Detect) =>
               (pc = "failed" /\ error = [kind |-> "NetworkDetect"])
        /\ (IsLegacyFile /\ compute_addresses # Detect) => error.kind \in {"None", "Io"}

\* a modern file of one network was opened with another network specified
C4_WitnessMismatch ==
    /\ pc = "failed"
    /\ IsModernFile
    /\ error = NetworkMismatch("Signet", "Bitcoin")

(***************************************************************************)
(* The codecs taken alone.  Each specification draws an argument from a    *)
(* bounded set and applies the functions to it; no Dump exists.            *)
(***************************************************************************)
DumpIdle ==
    /\ data = <<>> /\ pos = 0 /\ pc = "none" /\ compute_addresses = No
    /\ error = NoError /\ address_network = None /\ state = NeedTxid
    /\ block_hash = <<>> /\ utxo_set_size = <<>> /\ item = ItemNone
    /\ overflow_checks = FALSE /\ hist = [pulls |-> <<>>, rewinds |-> 0]

MaxSmall == 260        \* the values 0..MaxSmall are all drawn
MaxMantissa == 12      \* m * 10^k is drawn for m in 1..MaxMantissa
MaxVarIntLen == 3      \* byte strings of the sample bytes up to this length

RECURSIVE TimesPow10Exact(_, _)
TimesPow10Exact(n, k) == IF k = 0 THEN n ELSE TimesPow10Exact(MulAdd(n, 10, 0), k - 1)

\* u64 values: the small ones, the round ones, and those next to the places
\* where an encoding changes width or the arithmetic reaches 64 bits
Boundaries ==
    {FromDec(<<1, 2, 3, 4, 5, 6, 7, 8, 9>>),
     FromDec(<<6, 2, 5, 0, 0, 0, 0, 0, 0>>),
     FromDec(<<1, 2, 5, 0, 0, 0, 0, 0, 0, 0>>),
     FromDec(<<5, 0, 0, 0, 0, 0, 0, 0, 0, 0>>),
     FromDec(<<2, 0, 9, 9, 9, 9, 9, 9, 9, 7, 6, 9, 0, 0, 0, 0>>),
     FromInt(16383), FromInt(16384), FromInt(16511), FromInt(16512),
     FromInt(65534), FromInt(65535), FromInt(65536),
     Dec(U32_MAX), U32_MAX, <<0, 0, 0, 0, 1>>, <<1, 0, 0, 0, 1>>,
     Div(U64_MAX, 128), MulAdd(Div(U64_MAX, 128), 1, 1),
     Div(U64_MAX, 10), MulAdd(Div(U64_MAX, 10), 1, 1),
     Dec(Div(U64_MAX, 9)), Div(U64_MAX, 9), MulAdd(Div(U64_MAX, 9), 1, 1),
     MulAdd(Div(U64_MAX, 9), 1, 2), MulAdd(Div(U64_MAX, 9), 1, 9),
     Div(U64_MAX, 2), MulAdd(Div(U64_MAX, 2), 1, 1),
     Dec(Dec(U64_MAX)), Dec(U64_MAX), U64_MAX}

Values ==
    {FromInt(i) : i \in 0..MaxSmall}
    \cup {v \in {TimesPow10Exact(FromInt(m), k) : m \in 1..MaxMantissa, k \in 0..19} :
             Fits(v, 8)}
    \cup Boundaries

SampleBytes == {0, 1, 127, 128, 129, 254, 255}

RECURSIVE ByteSeqs(_)
ByteSeqs(n) ==
    IF n = 0 THEN {<<>>}
    ELSE LET shorter == ByteSeqs(n - 1)
         IN  shorter \cup {s \o <<b>> : s \in shorter, b \in SampleBytes}

\* byte strings around the longest VarInt, that of u64::MAX
LongByteSeqs ==
    {<<h>> \o Rep(m, k) \o <<x, t>> :
        h \in {128, 129}, m \in {254, 255}, k \in 6..8, x \in {253, 254, 255},
        t \in {0, 126, 127, 128, 255}}

\* a prefix byte and up to 9 bytes after it
CompactSizeByteSeqs ==
    {<<p>> \o Rep(b, k) : p \in {0, 252, 253, 254, 255}, b \in {0, 1, 255}, k \in 0..9}

MaxRawLen == 4         \* raw scripts of every length 0..MaxRawLen are drawn

\* compressed scripts: a selector and payload bytes, too few, exact or more
ScriptSelectors ==
    {FromInt(i) : i \in 0..(NUM_SPECIAL_SCRIPTS + MaxRawLen)}
    \cup {FromInt(NUM_SPECIAL_SCRIPTS + 75), FromInt(NUM_SPECIAL_SCRIPTS + MAX_SCRIPT_SIZE),
          FromInt(NUM_SPECIAL_SCRIPTS + MAX_SCRIPT_SIZE + 1),
          <<6, 0, 0, 0, 1>>, U64_MAX}

PayloadLens(sel) ==
    IF ~Fits(sel, 2) THEN {0, 40}
    ELSE LET n == IF ToInt(sel) <= 1 THEN 20
                  ELSE IF ToInt(sel) < NUM_SPECIAL_SCRIPTS THEN 32
                  ELSE ToInt(sel) - NUM_SPECIAL_SCRIPTS
         IN  {k \in {n - 1, n, n + 2} : k >= 0}

ScriptByteSeqs ==
    {<<>>, <<128>>}
    \cup UNION {{VarIntEncode(sel) \o Rep(b, k) : b \in {0, 7, 255}, k \in PayloadLens(sel)} :
                   sel \in ScriptSelectors}

CodecInit(args) == DumpIdle /\ arg \in args /\ fn = "none" /\ ret = <<>>

\* ---- Amount
AmountInit == CodecInit(Values)

AmountCompress ==
    /\ fn = "none"
    /\ fn' = "compress"
    /\ ret' = compress(arg)
    /\ UNCHANGED <<arg, dumpVars>>

AmountDecompress ==
    /\ fn = "compress"
    /\ fn' = "round_trip"
    /\ ret' = [compressed |-> ret, decompressed |-> decompress(ret.val)]
    /\ UNCHANGED <<arg, dumpVars>>

\* the argument taken as a compressed amount read from a file
AmountDecompressOnly ==
    /\ fn = "none"
    /\ fn' = "decompress"
    /\ ret' = decompress(arg)
    /\ UNCHANGED <<arg, dumpVars>>

AmountNext == AmountCompress \/ AmountDecompress \/ AmountDecompressOnly
SpecAmount == AmountInit /\ [][AmountNext]_vars

\* ---- VarInt
VarIntInit == CodecInit(Values \cup ByteSeqs(MaxVarIntLen) \cup LongByteSeqs)

VarIntEncodeValue ==
    /\ fn = "none"
    /\ arg \in Values
    /\ fn' = "encode"
    /\ ret' = VarIntEncode(arg)
    /\ UNCHANGED <<arg, dumpVars>>

\* the encoding is decoded again, alone or with bytes after it
VarIntDecodeEncoded ==
    /\ fn = "encode"
    /\ fn' = "round_trip"
    /\ \E rest \in {<<>>, <<0>>, <<255, 1>>} :
           ret' = [bytes |-> ret, decoded |-> VarIntDecode(ret \o rest, 0)]
    /\ UNCHANGED <<arg, dumpVars>>

VarIntDecodeBytes ==
    /\ fn = "none"
    /\ arg \in ByteSeqs(MaxVarIntLen) \cup LongByteSeqs
    /\ fn' = "decode"
    /\ ret' = VarIntDecode(arg, 0)
    /\ UNCHANGED <<arg, dumpVars>>

VarIntNext == VarIntEncodeValue \/ VarIntDecodeEncoded \/ VarIntDecodeBytes
SpecVarInt == VarIntInit /\ [][VarIntNext]_vars

(***************************************************************************)
(* Properties of the amount compressor (SpecAmount).                       *)
(***************************************************************************)
RoundTripExact ==
    /\ ~ret.compressed.ovf
    /\ ~ret.decompressed.ovf
    /\ ret.decompressed.val = arg

\* C5 as stated: for every u64 n, decompress(compress(n)) = n and no
\* intermediate value of compress or decompress leaves 64 bits.
C5_LosslessForEveryU64 == fn = "round_trip" => RoundTripExact

\* C5, amended: compress stays inside 64 bits for every n <= u64::MAX / 9,
\* and whenever compress stays inside 64 bits, decompress stays inside 64
\* bits too and decompress(compress(n)) = n.
C5_LosslessWithoutOverflow ==
    fn = "round_trip" =>
        /\ ~Less(Div(U64_MAX, 9), arg) => ~ret.compressed.ovf
        /\ ~ret.compressed.ovf => RoundTripExact

\* the largest amount of the test vectors has made the round trip
C5_Witness ==
    /\ fn = "round_trip"
    /\ arg = FromDec(<<2, 0, 9, 9, 9, 9, 9, 9, 9, 7, 6, 9, 0, 0, 0, 0>>)
    /\ ~ret.compressed.ovf
    /\ ret.decompressed.val = arg

(***************************************************************************)
(* Properties of the VarInt codec (SpecVarInt).                            *)
(***************************************************************************)
\* the test vectors of the encoding
VarIntVectors ==
    <<[n |-> <<>>, bytes |-> <<0>>],
      [n |-> FromInt(127), bytes |-> <<127>>],
      [n |-> FromInt(128), bytes |-> <<128, 0>>],
      [n |-> FromInt(16383), bytes |-> <<254, 127>>],
      [n |-> FromInt(16384), bytes |-> <<255, 0>>],
      [n |-> <<0, 0, 0, 0, 1>>, bytes |-> <<142, 254, 254, 255, 0>>]>>

\* C6: decoding the encoding of n succeeds, consumes exactly the encoding
\* and returns n; 0, 127, 128, 16383, 16384 and 2^32 encode to the bytes of
\* the table.
C6_VarIntRoundTrip ==
    /\ fn = "round_trip" => ret.decoded = Ok(arg, Len(ret.bytes))
    /\ fn = "encode" =>
           \A i \in 1..Len(VarIntVectors) :
               arg = VarIntVectors[i].n => ret = VarIntVectors[i].bytes

\* u64::MAX has made the round trip through its ten bytes, followed by others
C6_Witness ==
    /\ fn = "round_trip"
    /\ arg = U64_MAX
    /\ Len(ret.bytes) = 10
    /\ ret.decoded.pos = 10
    /\ ret.decoded.val = U64_MAX

\* C7: whenever decoding succeeds with value n after consuming k bytes,
\* those k bytes are the encoding of n.
C7_VarIntUnique ==
    (fn = "decode" /\ ret.ok) => SubSeq(arg, 1, ret.pos) = VarIntEncode(ret.val)

\* a decode succeeded that read more than one byte and left bytes unread
C7_Witness ==
    /\ fn = "decode"
    /\ ret.ok
    /\ ret.pos = 2
    /\ Len(arg) = 3

\* the value of the bytes a[1..len], all but the last with bit 128 set, in
\* unbounded arithmetic:
\*   (a[len] & 0x7F) + sum(i = 1..len-1, 128^i * ((a[len-i] & 0x7F) + 1))
RECURSIVE MathValue(_)
MathValue(a) ==
    IF Len(a) = 1 THEN FromInt(a[1] % 128)
    ELSE LET front == SubSeq(a, 1, Len(a) - 1)
         IN  MulAdd(MulAdd(MathValue(front), 1, 1), 128, a[Len(a)] % 128)

\* the accumulator, in unbounded arithmetic, once k bytes with bit 128 set
\* have been read and the 1 added after each of them
MathAccumulator(a, k) == IF k = 0 THEN <<>> ELSE MulAdd(MathValue(SubSeq(a, 1, k)), 1, 1)

\* byte k is read with an accumulator above u64::MAX >> 7, or byte k has
\* bit 128 set and brings the accumulator to u64::MAX
OverflowAt(a, k) ==
    \/ Less(Div(U64_MAX, 128), MathAccumulator(a, k - 1))
    \/ a[k] >= 128 /\ MulAdd(MathAccumulator(a, k - 1), 128, a[k] % 128) = U64_MAX

\* the bytes read: up to the first byte without bit 128, or all of them
LastRead(a) ==
    IF \E k \in 1..Len(a) : a[k] < 128
    THEN CHOOSE k \in 1..Len(a) : a[k] < 128 /\ \A j \in 1..(k - 1) : a[j] >= 128
    ELSE Len(a)

\* C8: decoding fails with NonMinimalVarInt at the first byte read with the
\* accumulator above u64::MAX >> 7, or with bit 128 set and the accumulator
\* at u64::MAX; otherwise the value returned is the unbounded value of the
\* bytes consumed (no wrap-around), and the data ends early with an I/O error.
C8_VarIntNoWrap ==
    fn = "decode" =>
        LET last == LastRead(arg)
            over == {k \in 1..last : OverflowAt(arg, k)}
        IN  IF over # {}
            THEN ret = Err("NonMinimalVarInt", CHOOSE k \in over : \A j \in over : k <= j)
            ELSE IF last = 0 \/ arg[last] >= 128
            THEN ret = Err("Io", Len(arg))
            ELSE ret = Ok(MathValue(SubSeq(arg, 1, last)), last)

\* ten bytes were read of a value one digit past u64::MAX: the accumulator
\* was above u64::MAX >> 7 when the tenth byte came
C8_Witness ==
    /\ fn = "decode"
    /\ arg = <<128>> \o Rep(254, 7) \o <<255, 255>>
    /\ ret = Err("NonMinimalVarInt", 10)

\* ---- CompactSize
CompactSizeInit == CodecInit(Values \cup CompactSizeByteSeqs)

CompactSizeEncodeValue ==
    /\ fn = "none"
    /\ arg \in Values
    /\ fn' = "encode"
    /\ ret' = CompactSizeEncode(arg)
    /\ UNCHANGED <<arg, dumpVars>>

CompactSizeDecodeEncoded ==
    /\ fn = "encode"
    /\ fn' = "round_trip"
    /\ \E rest \in {<<>>, <<0>>, <<255, 1>>} :
           ret' = [bytes |-> ret, decoded |-> CompactSizeDecode(ret \o rest, 0)]
    /\ UNCHANGED <<arg, dumpVars>>

\* any bytes decoded: also values behind a prefix wider than they need
CompactSizeDecodeBytes ==
    /\ fn = "none"
    /\ arg \in CompactSizeByteSeqs
    /\ fn' = "decode"
    /\ ret' = CompactSizeDecode(arg, 0)
    /\ UNCHANGED <<arg, dumpVars>>

CompactSizeNext ==
    CompactSizeEncodeValue \/ CompactSizeDecodeEncoded \/ CompactSizeDecodeBytes
SpecCompactSize == CompactSizeInit /\ [][CompactSizeNext]_vars

\* C9: decoding the CompactSize encoding of n consumes exactly the encoding
\* and returns n, for every u64 n, the width boundaries included.
C9_CompactSizeRoundTrip ==
    fn = "round_trip" => ret.decoded = Ok(arg, Len(ret.bytes))

\* 0x10000, the first value of five bytes, has made the round trip with
\* bytes after it
C9_Witness ==
    /\ fn = "round_trip"
    /\ arg = FromInt(65536)
    /\ ret.bytes = <<254, 0, 0, 1, 0>>
    /\ ret.decoded = Ok(arg, 5)

\* ---- Script
ScriptInit == CodecInit(ScriptByteSeqs)

ScriptDecodeBytes ==
    /\ fn = "none"
    /\ fn' = "decode"
    /\ ret' = ScriptDecode(arg, 0)
    /\ UNCHANGED <<arg, dumpVars>>

ScriptNext == ScriptDecodeBytes
SpecScript == ScriptInit /\ [][ScriptNext]_vars

\* the payload length the table of selectors documents
DocumentedPayloadLen(sel) ==
    IF Less(sel, FromInt(2)) THEN FromInt(20)
    ELSE IF Less(sel, FromInt(6)) THEN FromInt(32)
    ELSE SubSmall(sel, 6)

\* the shape documented for the script of a selector and its payload
DocumentedShape(sel, payload, script) ==
    CASE sel = FromInt(0) -> Len(script) = 25
      [] sel = FromInt(1) -> Len(script) = 23
      [] sel \in {FromInt(2), FromInt(3)} -> Len(script) = 35 /\ FromInt(script[2]) = sel
      [] sel \in {FromInt(4), FromInt(5)} -> Len(script) = 67
      [] OTHER -> Len(payload) <= 10000 => script = payload

\* C10: after the selector, decompression consumes exactly 20 bytes for
\* selectors 0 and 1, 32 bytes for 2 to 5 and selector - 6 bytes for the
\* others (it fails when the data holds fewer), and a script it returns has
\* 25, 23, 35 (with the selector as parity byte) or 67 bytes, or is the
\* selector - 6 bytes read when these are at most 10,000.
C10_ScriptConsumesAndShapes ==
    (fn = "decode" /\ VarIntDecode(arg, 0).ok) =>
        LET v == VarIntDecode(arg, 0)
            n == DocumentedPayloadLen(v.val)
        IN  IF Fits(n, 3) /\ v.pos + ToInt(n) <= Len(arg)
            THEN /\ ret.pos = v.pos + ToInt(n)
                 /\ ret.ok =>
                        DocumentedShape(v.val, SubSeq(arg, v.pos + 1, ret.pos), ret.val)
                 /\ ~ret.ok =>
                        v.val \in {FromInt(4), FromInt(5)} /\ ret.err = "ParseFailed"
            ELSE ~ret.ok

\* an uncompressed key was rebuilt from 32 bytes with more bytes after them
C10_Witness ==
    /\ fn = "decode"
    /\ arg = <<5>> \o Rep(7, 34)
    /\ ret.ok
    /\ ret.pos = 33
    /\ Len(ret.val) = 67

\* a raw script declared longer than MAX_SCRIPT_SIZE was decoded
OversizeRaw ==
    /\ fn = "decode"
    /\ VarIntDecode(arg, 0).ok
    /\ ~Less(VarIntDecode(arg, 0).val, FromInt(NUM_SPECIAL_SCRIPTS))
    /\ Less(FromInt(10000), SubSmall(VarIntDecode(arg, 0).val, 6))

\* C11: when a raw script's declared length (selector - 6) exceeds 10,000
\* and the data holds that many bytes after the selector, decompression
\* consumes exactly that many bytes -- the position after it is the one a
\* kept script would leave -- and returns the one-opcode OP_RETURN script,
\* not the bytes read; when the data holds fewer, no script is returned.
C11_OversizeConsumedAndReplaced ==
    OversizeRaw =>
        LET v == VarIntDecode(arg, 0)
            n == SubSmall(v.val, 6)
        IN  IF Fits(n, 3) /\ v.pos + ToInt(n) <= Len(arg)
            THEN /\ ret.ok
                 /\ ret.pos = v.pos + ToInt(n)
                 /\ ret.val = <<106>>
                 /\ ret.val # SubSeq(arg, v.pos + 1, ret.pos)
            ELSE ~ret.ok

\* 10,001 bytes were declared and read, with two more bytes after them
C11_Witness ==
    /\ OversizeRaw
    /\ arg = VarIntEncode(FromInt(10007)) \o Rep(7, 10003)
    /\ ret.ok
    /\ ret.val = <<OP_RETURN>>
    /\ ret.pos = Len(arg) - 2

(***************************************************************************)
(* Further properties of the record stream (Spec).                         *)
(***************************************************************************)
\* the header was parsed and a Dump built
HeaderParsed == pc \in {"iter", "panicked"}

\* where the 8-byte declared count lies in the data
CountOffset == IF HasMagic THEN 43 ELSE 32

\* the data with another declared count, every other byte the same
WithCount(count) ==
    SubSeq(data, 1, CountOffset) \o ToLe(count, 8)
        \o SubSeq(data, CountOffset + 9, Len(data))

\* the counts a second stream is given
OtherCounts == {<<>>, FromInt(1), FromInt(2), FromInt(3), FromInt(1000), U64_MAX}

\* the first k pulls of a stream at position p in state st over the bytes bs
RECURSIVE Replay(_, _, _, _, _, _)
Replay(bs, p, st, net, checks, k) ==
    IF k = 0 THEN <<>>
    ELSE LET r == Pull(bs, p, st, net, checks)
         IN  <<[before |-> st, start |-> p, end |-> r.pos, item |-> r.item,
                after |-> r.state]>>
                 \o Replay(bs, r.pos, r.state, net, checks, k - 1)

\* the records yielded so far
Yielded == {i \in PullIds : Pulls[i].item.kind = "Some"}

\* C12: a second stream over the same bytes with any other declared count
\* in the header is built like this one (same state, position and address
\* network, the count alone differing) and its pulls return the same items at
\* the same positions as the pulls made on this one.
C12_DeclaredCountIgnored ==
    HeaderParsed =>
        \A count \in OtherCounts :
            LET twin == ParseHeader(WithCount(count), compute_addresses)
            IN  /\ twin.ok
                /\ twin.utxo_set_size = count
                /\ twin.block_hash = block_hash
                /\ twin.address_network = address_network
                /\ twin.rewinds = hist.rewinds
                /\ Replay(WithCount(count), twin.pos, twin.state,
                          twin.address_network, overflow_checks, Len(Pulls)) = Pulls

\* a stream whose header declares no output has yielded a record
C12_Witness ==
    /\ HeaderParsed
    /\ utxo_set_size = <<>>
    /\ Yielded # {}

\* C13: the reader is rewound at most once, by from_reader, and exactly when
\* five bytes were read that are not the snapshot magic; no pull rewinds
\* it or moves its position backwards: each pull starts where the one before
\* ended and ends no earlier; the first pull reads at offset 40 after a legacy
\* header and at offset 51 after a modern one.
C13_OneRewindThenForward ==
    /\ hist.rewinds \in {0, 1}
    /\ pc = "new" => hist.rewinds = 0 /\ pos = 0
    /\ pc # "new" => (hist.rewinds = 1 <=> IsLegacyFile)
    /\ HeaderParsed =>
           /\ pos >= (IF IsLegacyFile THEN 40 ELSE 51)
           /\ Pulls = <<>> => pos = (IF IsLegacyFile THEN 40 ELSE 51)
    /\ \A i \in PullIds :
           /\ Pulls[i].start = (IF i = 1 THEN IF IsLegacyFile THEN 40 ELSE 51
                                ELSE Pulls[i - 1].end)
           /\ Pulls[i].end >= Pulls[i].start
           /\ i = Len(Pulls) => pos = Pulls[i].end

\* a legacy file was rewound once and two records were then read forward
C13_Witness ==
    /\ IsLegacyFile
    /\ hist.rewinds = 1
    /\ Len(Pulls) >= 2
    /\ Pulls[1].start = 40
    /\ Pulls[1].item.kind = "Some"
    /\ Pulls[2].item.kind = "Some"
    /\ Pulls[2].end > Pulls[2].start

(***************************************************************************)
(* The buffer the script decoder allocates (SpecScript).                   *)
(***************************************************************************)
\* C14: for every selector read, the payload buffer the script decoder
\* allocates holds at most 10,000 bytes.
C14_AllocationWithinCeiling ==
    fn = "decode" => ~Less(FromInt(10000), ret.alloc)

(***************************************************************************)
(* Termination of the iteration (Spec).  Every pull lengthens the history, *)
(* so a run of pulls ends in a state where no further pull is made: the    *)
(* consumer's loop has left on None, the pull has panicked, or MaxPulls    *)
(* pulls were made.                                                        *)
(***************************************************************************)
\* a pull has returned None
EndSignalled == \E i \in PullIds : Pulls[i].item = ItemNone

\* no further pull is made on the stream
PullsOver == pc = "panicked" \/ Len(Pulls) = MaxPulls

\* every pull that yielded a record moved the reader on
RecordsAdvance ==
    \A i \in PullIds : Pulls[i].item.kind = "Some" => Pulls[i].end > Pulls[i].start

\* no more records than bytes after the header
FinitelyManyRecords == Cardinality(Yielded) <= Len(data) - CountOffset - 8

\* C15: every pull that yields a record advances the read position by at
\* least one byte, the records yielded are no more than the bytes of the
\* data, and a run of pulls does not end before some pull has returned
\* None.
C15_IterationTerminates ==
    /\ RecordsAdvance
    /\ HeaderParsed => FinitelyManyRecords
    /\ PullsOver => EndSignalled

====
